---- MODULE Spec2Model ----
(***************************************************************************)
(* Model of the amygdala-lateralization pipeline:                          *)
(*   scripts/run_and_qa.py               (controller, validate_roi_csv,    *)
(*                                        fix_overlay_mask_and_render)     *)
(*   scripts/02_compute_asymmetry_vs_anxiety.py (column normalization)     *)
(*   scripts/03_generate_figures.py      (Figure 4 mask build)             *)
(*                                                                         *)
(* Text (column names, CSV cells, atlas labels) is a sequence of           *)
(* one-character strings, so that strip(), lower(), "in" and the CSV       *)
(* parse/format conversions are computed and not assumed.                  *)
(***************************************************************************)
EXTENDS Integers, Sequences, FiniteSets, TLC

VARIABLES
    roiFile,     \* results/roi_values.csv on disk: Absent or [exists, hdr, rows]
    df,          \* table returned by the last validate_roi_csv call, or NoTable
    vstat,       \* outcome of the last validate_roi_csv call
    vwrites,     \* number of df.to_csv(path) calls made by the last call
    vwarned,     \* the last call printed the "likely incomplete" warning
    prevFile,    \* roiFile as it was when the last call started
    okBefore,    \* a call had already succeeded when the last call started
    nvalid,      \* number of validate_roi_csv calls so far
    totalWrites, \* number of df.to_csv(path) calls made by all calls so far
    anxCols,     \* anx_df.columns as loaded (02_compute_asymmetry_vs_anxiety.py)
    normCols,    \* anx_df.columns after the normalization block
    normStat,    \* "loaded" | "normalized"
    pc,          \* position of run_and_qa.main
    runs,        \* number of main() invocations started
    atlas,       \* what fetch_atlas_harvard_oxford returns: [labels, vol]
    haveNilearn, \* HAVE_NILEARN
    maskFile,    \* masks/amygdala_mask.nii.gz: NoMask or [exists, data]
    maskBy,      \* which code wrote maskFile last: "none" | "fig4" | "fix"
    builds,      \* number of times a mask artifact was written
    sel03,       \* amyg_indices of the last Figure 4 build, or NoSel
    selFix,      \* amyg_indices of the last fix_overlay_mask_and_render build, or NoSel
    noLabels03,  \* in this run the Figure 4 block raised "No amygdala labels found"
    maskFailed,  \* in this run fix_overlay_mask_and_render found no amygdala label
    stageFailed, \* in this run a script exited non-zero or validation exited
    donePrinted  \* this run printed the final "DONE" success message

valVars  == <<roiFile, df, vstat, vwrites, vwarned, prevFile, okBefore, nvalid,
              totalWrites>>
normVars == <<anxCols, normCols, normStat>>
pipeVars == <<pc, runs, atlas, haveNilearn, maskFile, maskBy, builds, sel03, selFix,
              noLabels03, maskFailed, stageFailed, donePrinted>>
vars == <<valVars, normVars, pipeVars>>

\* a path at which no file exists
Absent  == [exists |-> FALSE, hdr |-> <<>>, rows |-> <<>>]
NoMask  == [exists |-> FALSE, data |-> <<>>]
\* no table was returned (the call exited or raised)
NoTable == [cols |-> <<>>, data |-> <<>>, n |-> -1]
\* no build has computed amyg_indices
NoSel   == [built |-> FALSE, labels |-> <<>>, idx |-> {}]

(***************************************************************************)
(* Text helpers                                                            *)
(***************************************************************************)
Digits == <<"0","1","2","3","4","5","6","7","8","9">>

IsDigit(c) == \E i \in 1..10 : Digits[i] = c

DigitVal(c) == (CHOOSE i \in 1..10 : Digits[i] = c) - 1

\* str(n) for a natural number
RECURSIVE NatToText(_)
NatToText(n) ==
    IF n < 10 THEN <<Digits[n + 1]>>
    ELSE NatToText(n \div 10) \o <<Digits[(n % 10) + 1]>>

IntToText(n) == IF n < 0 THEN <<"-">> \o NatToText(-n) ELSE NatToText(n)

\* int(t) for a text of digits
RECURSIVE DigitsToNat(_)
DigitsToNat(t) ==
    IF Len(t) = 0 THEN 0
    ELSE 10 * DigitsToNat(SubSeq(t, 1, Len(t) - 1)) + DigitVal(t[Len(t)])

AllDigits(t) == Len(t) > 0 /\ \A i \in 1..Len(t) : IsDigit(t[i])

\* sub in t  (Python's substring test on str)
Contains(t, sub) ==
    \E i \in 0..(Len(t) - Len(sub)) :
        \A j \in 1..Len(sub) : t[i + j] = sub[j]

IsSpace(c) == c = " "

\* str.strip()
RECURSIVE LStrip(_)
LStrip(t) ==
    IF Len(t) > 0 /\ IsSpace(t[1]) THEN LStrip(Tail(t)) ELSE t

RECURSIVE RStrip(_)
RStrip(t) ==
    IF Len(t) > 0 /\ IsSpace(t[Len(t)]) THEN RStrip(SubSeq(t, 1, Len(t) - 1)) ELSE t

Strip(t) == LStrip(RStrip(t))

Upper == <<"A","B","C","D","E","F","G","H","I","J","K","L","M",
           "N","O","P","Q","R","S","T","U","V","W","X","Y","Z">>
Lower == <<"a","b","c","d","e","f","g","h","i","j","k","l","m",
           "n","o","p","q","r","s","t","u","v","w","x","y","z">>

LowerChar(c) ==
    IF \E i \in 1..26 : Upper[i] = c
    THEN Lower[CHOOSE i \in 1..26 : Upper[i] = c]
    ELSE c

\* str.lower()
ToLower(t) == [i \in 1..Len(t) |-> LowerChar(t[i])]

\* x in seq  (Python's membership test on a list / Index)
InSeq(x, s) == \E i \in 1..Len(s) : s[i] = x

IndexOf(x, s) == CHOOSE i \in 1..Len(s) : s[i] = x /\ \A j \in 1..(i - 1) : s[j] # x

(***************************************************************************)
(* Names used by the scripts                                               *)
(***************************************************************************)
Amygdala_L == <<"A","m","y","g","d","a","l","a","_","L">>
Amygdala_R == <<"A","m","y","g","d","a","l","a","_","R">>
Asymmetry  == <<"A","s","y","m","m","e","t","r","y">>
STAI_T     == <<"S","T","A","I","_","T">>
Subject    == <<"S","u","b","j","e","c","t">>

(***************************************************************************)
(* pandas values.  A cell value is an int64, a finite float64 (kept as the *)
(* reduced fraction n/d it denotes), NaN, +-inf, or a str.                 *)
(***************************************************************************)
IntV(n) == [k |-> "int", n |-> n, d |-> 1, s |-> <<>>]
NaNV    == [k |-> "nan", n |-> 0, d |-> 1, s |-> <<>>]
InfV(sg) == [k |-> "inf", n |-> sg, d |-> 1, s |-> <<>>]
StrV(t) == [k |-> "str", n |-> 0, d |-> 1, s |-> t]

Abs(n) == IF n < 0 THEN -n ELSE n

RECURSIVE GCD(_, _)
GCD(a, b) == IF b = 0 THEN a ELSE GCD(b, a % b)

\* the float n/d, d # 0, in lowest terms with a positive denominator
NumV(n, d) ==
    LET g  == GCD(Abs(n), Abs(d))
        sg == IF d < 0 THEN -1 ELSE 1
    IN  [k |-> "num", n |-> (sg * n) \div g, d |-> Abs(d) \div g, s |-> <<>>]

RECURSIVE Pow10(_)
Pow10(e) == IF e = 0 THEN 1 ELSE 10 * Pow10(e - 1)

(***************************************************************************)
(* pd.read_csv: text -> value                                              *)
(***************************************************************************)
InfText    == <<"i","n","f">>
NegInfText == <<"-","i","n","f">>
NATexts    == { <<>>, <<"N","A">>, <<"N","a","N">>, <<"n","a","n">> }

IsNAText(t) == t \in NATexts

IsIntText(t) ==
    \/ AllDigits(t)
    \/ Len(t) > 1 /\ t[1] = "-" /\ AllDigits(Tail(t))

TextToInt(t) ==
    IF t[1] = "-" THEN -DigitsToNat(Tail(t)) ELSE DigitsToNat(t)

DotPos(t) == CHOOSE i \in 1..Len(t) : t[i] = "."

IsDecimalText(t) ==
    /\ Cardinality({i \in 1..Len(t) : t[i] = "."}) = 1
    /\ IsIntText(SubSeq(t, 1, DotPos(t) - 1))
    /\ AllDigits(SubSeq(t, DotPos(t) + 1, Len(t)))

IsFloatText(t) == t = InfText \/ t = NegInfText \/ IsDecimalText(t)

ParseFloat(t) ==
    IF t = InfText THEN InfV(1)
    ELSE IF t = NegInfText THEN InfV(-1)
    ELSE LET ip   == SubSeq(t, 1, DotPos(t) - 1)
             fp   == SubSeq(t, DotPos(t) + 1, Len(t))
             neg  == ip[1] = "-"
             mag  == Abs(TextToInt(ip)) * Pow10(Len(fp)) + DigitsToNat(fp)
         IN  NumV(IF neg THEN -mag ELSE mag, Pow10(Len(fp)))

\* type inference of one column: int64, else float64, else object
ParseCol(cells) ==
    IF Len(cells) = 0 THEN <<>>
    ELSE IF \A i \in 1..Len(cells) : IsIntText(cells[i])
    THEN [i \in 1..Len(cells) |-> IntV(TextToInt(cells[i]))]
    ELSE IF \A i \in 1..Len(cells) :
                IsIntText(cells[i]) \/ IsFloatText(cells[i]) \/ IsNAText(cells[i])
    THEN [i \in 1..Len(cells) |->
            IF IsNAText(cells[i]) THEN NaNV
            ELSE IF IsIntText(cells[i]) THEN NumV(TextToInt(cells[i]), 1)
            ELSE ParseFloat(cells[i])]
    ELSE [i \in 1..Len(cells) |->
            IF IsNAText(cells[i]) THEN NaNV ELSE StrV(cells[i])]

\* pd.read_csv(path) of an existing, non-empty file
read_csv(f) ==
    [cols |-> f.hdr,
     data |-> [j \in 1..Len(f.hdr) |->
                 ParseCol([i \in 1..Len(f.rows) |-> f.rows[i][j]])],
     n    |-> Len(f.rows)]

(***************************************************************************)
(* df.to_csv: value -> text                                                *)
(***************************************************************************)
MaxFracDigits == 4

\* zero-padded decimal digits of m, at least w wide
RECURSIVE PadNat(_, _)
PadNat(m, w) ==
    IF w <= 1 THEN NatToText(m)
    ELSE IF m < Pow10(w - 1) THEN <<"0">> \o PadNat(m, w - 1)
    ELSE NatToText(m)

\* trailing zeros removed, one digit kept
RECURSIVE TrimZeros(_)
TrimZeros(t) ==
    IF Len(t) > 1 /\ t[Len(t)] = "0" THEN TrimZeros(SubSeq(t, 1, Len(t) - 1)) ELSE t

\* repr() of the finite float n/d
FormatNum(n, d) ==
    IF \E e \in 0..MaxFracDigits : Pow10(e) % d = 0
    THEN LET e   == CHOOSE x \in 0..MaxFracDigits :
                        Pow10(x) % d = 0 /\ \A y \in 0..(x - 1) : Pow10(y) % d # 0
             w   == IF e = 0 THEN 1 ELSE e
             sc  == Abs(n) * (Pow10(w) \div d)
             txt == NatToText(sc \div Pow10(w)) \o <<".">>
                        \o TrimZeros(PadNat(sc % Pow10(w), w))
         IN  IF n < 0 THEN <<"-">> \o txt ELSE txt
    ELSE \* a repr with more digits than the model writes out: kept as n/d
         IntToText(n) \o <<"/">> \o NatToText(d)

FormatCell(v) ==
    CASE v.k = "int" -> IntToText(v.n)
      [] v.k = "num" -> FormatNum(v.n, v.d)
      [] v.k = "nan" -> <<>>
      [] v.k = "inf" -> IF v.n > 0 THEN InfText ELSE NegInfText
      [] v.k = "str" -> v.s

\* df.to_csv(path, index=False): the header line, then one line per row
to_csv(t) ==
    [exists |-> TRUE, hdr  |-> t.cols,
     rows |-> [i \in 1..t.n |-> [j \in 1..Len(t.cols) |-> FormatCell(t.data[j][i])]]]


(***************************************************************************)
(* run_and_qa.py: qa_table, validate_roi_csv                               *)
(***************************************************************************)
MinRows == 10

HasCol(t, c) == InSeq(c, t.cols)

\* df[c]: the first column of that name
Col(t, c) == t.data[IndexOf(c, t.cols)]

\* a Series holding a str cannot be subtracted, added or averaged (TypeError)
IsNumericCol(col) == \A i \in 1..Len(col) : col[i].k # "str"

\* one element of (R - L) / (R + L) in float64 arithmetic
AsymCell(l, r) ==
    IF l.k = "nan" \/ r.k = "nan" THEN NaNV
    ELSE IF l.k = "inf" \/ r.k = "inf" THEN NaNV      \* inf/inf, or inf - inf
    ELSE LET num == r.n * l.d - l.n * r.d             \* R - L over l.d * r.d
             den == r.n * l.d + l.n * r.d             \* R + L over l.d * r.d
         IN  IF den = 0
             THEN (IF num = 0 THEN NaNV ELSE IF num > 0 THEN InfV(1) ELSE InfV(-1))
             ELSE NumV(num, den)

AsymCol(t) ==
    [i \in 1..t.n |-> AsymCell(Col(t, Amygdala_L)[i], Col(t, Amygdala_R)[i])]

\* df[c] = col: replaces the column of that name, or appends a new last column
SetCol(t, c, col) ==
    IF HasCol(t, c)
    THEN [t EXCEPT !.data[IndexOf(c, t.cols)] = col]
    ELSE [t EXCEPT !.cols = Append(t.cols, c), !.data = Append(t.data, col)]

\* the test of line 92, and two wrong forms of it: one that repairs a file
\* that has the column, one that never repairs
NeedsRepairAlways(t) == TRUE

NeedsRepairNever(t) == FALSE

NeedsRepair(t) == ~HasCol(t, Asymmetry)

\* the column checks of lines 88-90
MissingHemisphere(t) == ~HasCol(t, Amygdala_L) \/ ~HasCol(t, Amygdala_R)

\* Series.mean() of the three summarised columns raises on a str
QaRaises(t) ==
    \E c \in {Amygdala_L, Amygdala_R, Asymmetry} :
        HasCol(t, c) /\ ~IsNumericCol(Col(t, c))

qa_table(t) ==
    [n_rows     |-> t.n,
     columns    |-> t.cols,
     has_STAI_T |-> HasCol(t, STAI_T),
     has_L      |-> HasCol(t, Amygdala_L),
     has_R      |-> HasCol(t, Amygdala_R)]

\* what to_csv of line 96 puts on disk; without index=False pandas writes the
\* row index as an unnamed first column
WriteWithIndex(t) ==
    LET f == to_csv(t)
    IN  [exists |-> TRUE, hdr  |-> <<<<>>>> \o f.hdr,
         rows |-> [i \in 1..t.n |-> <<IntToText(i - 1)>> \o f.rows[i]]]

WriteRepaired(t) == to_csv(t)

Outcome(stat, table, file, writes, warned) ==
    [stat |-> stat, df |-> table, file |-> file, writes |-> writes, warned |-> warned]

\* sys.exit(message) with the file content f as it is; a call that had opened
\* the path for writing before the check would leave an empty file instead
SysExitAfterTruncate(stat, f, warn) ==
    Outcome(stat, NoTable, [exists |-> TRUE, hdr |-> <<>>, rows |-> <<>>], 1, warn)

SysExit(stat, f, warn) == Outcome(stat, NoTable, f, 0, warn)

\* an exception that leaves validate_roi_csv (pandas raises), f being the file
\* content at that point and w the writes made before it
Raise(stat, f, w, warn) == Outcome(stat, NoTable, f, w, warn)

\* validate_roi_csv(path) on the file content f: the outcome, the returned
\* table, the file content afterwards and the number of writes
validate_roi_csv(f) ==
    IF ~f.exists THEN SysExit("MissingArtifact", f, FALSE)
    ELSE IF Len(f.hdr) = 0 THEN Raise("EmptyDataError", f, 0, FALSE)
    ELSE
      LET t    == read_csv(f)
          warn == t.n < MinRows
      IN  IF MissingHemisphere(t) THEN SysExit("SchemaViolation", f, warn)
          ELSE IF NeedsRepair(t)
          THEN IF ~IsNumericCol(Col(t, Amygdala_L)) \/ ~IsNumericCol(Col(t, Amygdala_R))
               THEN Raise("TypeError", f, 0, warn)
               ELSE LET t2 == SetCol(t, Asymmetry, AsymCol(t))
                        f2 == WriteRepaired(t2)
                    IN  IF QaRaises(t2) THEN Raise("TypeError", f2, 1, warn)
                        ELSE Outcome("ok", t2, f2, 1, warn)
          ELSE IF QaRaises(t) THEN Raise("TypeError", f, 0, warn)
          ELSE Outcome("ok", t, f, 0, warn)

(***************************************************************************)
(* Specification SpecValidate: validate_roi_csv called repeatedly on a     *)
(* dataset file of arbitrary initial content.                              *)
(***************************************************************************)
MaxRows == 1
MaxRuns == 2

ColNames == {Subject, Amygdala_L, Amygdala_R, Asymmetry}

SubjTexts == { <<"s","6">>, <<"0","7">> }
HemiTexts == { <<"0","1">>, <<"-","1">>, <<"N","A">>, <<"x">> }
AsymTexts == { <<"0",".","5">> }

CellTexts(c) ==
    IF c = Subject THEN SubjTexts
    ELSE IF c = Asymmetry THEN AsymTexts
    ELSE HemiTexts

\* header lines: the column names in any order, none repeated
Headers ==
    {h \in UNION {[1..n -> ColNames] : n \in 0..Cardinality(ColNames)} :
        \A i, j \in 1..Len(h) : i # j => h[i] # h[j]}

\* the possible lines under header h
RECURSIVE RowsOf(_)
RowsOf(h) ==
    IF Len(h) = 0 THEN {<<>>}
    ELSE {<<c>> \o r : c \in CellTexts(h[1]), r \in RowsOf(Tail(h))}

\* the 12-row dataset of the documented scenario: subject, left, right
Scenario12 ==
    [exists |-> TRUE, hdr |-> <<Subject, Amygdala_L, Amygdala_R>>,
     rows |-> [i \in 1..12 |-> << <<"s","6">>, <<"1">>, <<"0","3">> >>]]

\* the dataset file before the first call
IsInitialFile(f) ==
    \/ f \in {Absent, Scenario12}
    \/ \E h \in Headers, n \in 0..MaxRows :
          \E b \in [1..n -> RowsOf(h)] : f = [exists |-> TRUE, hdr |-> h, rows |-> b]

NormIdle ==
    /\ anxCols = <<>> /\ normCols = <<>> /\ normStat = "loaded"

PipeIdle ==
    /\ pc = "idle" /\ runs = 0 /\ atlas = [labels |-> <<>>, vol |-> <<>>]
    /\ haveNilearn = FALSE /\ maskFile = NoMask /\ maskBy = "none" /\ builds = 0
    /\ sel03 = NoSel /\ selFix = NoSel /\ noLabels03 = FALSE /\ maskFailed = FALSE
    /\ stageFailed = FALSE /\ donePrinted = FALSE

ValIdle ==
    /\ roiFile = Absent /\ df = NoTable /\ vstat = "none" /\ vwrites = 0
    /\ vwarned = FALSE /\ prevFile = Absent /\ okBefore = FALSE /\ nvalid = 0
    /\ totalWrites = 0

InitValidate ==
    /\ IsInitialFile(roiFile)
    /\ df = NoTable /\ vstat = "none" /\ vwrites = 0 /\ vwarned = FALSE
    /\ prevFile = roiFile /\ okBefore = FALSE /\ nvalid = 0 /\ totalWrites = 0
    /\ NormIdle /\ PipeIdle

\* the effect of one call validate_roi_csv(ROI_CSV) on the dataset file and
\* on what the caller gets back
CallValidate ==
    /\ LET o == validate_roi_csv(roiFile)
       IN  /\ roiFile' = o.file
           /\ df' = o.df
           /\ vstat' = o.stat
           /\ vwrites' = o.writes
           /\ vwarned' = o.warned
           /\ totalWrites' = totalWrites + o.writes
    /\ prevFile' = roiFile
    /\ okBefore' = (okBefore \/ vstat = "ok")
    /\ nvalid' = nvalid + 1

\* validate_roi_csv called on its own
Validate ==
    /\ nvalid < MaxRuns
    /\ CallValidate
    /\ UNCHANGED <<normVars, pipeVars>>

NextValidate == Validate

SpecValidate == InitValidate /\ [][NextValidate]_vars


(***************************************************************************)
(* Properties of validate_roi_csv, checked under SpecValidate              *)
(***************************************************************************)
HemisphereAndAsymmetry(cols) ==
    InSeq(Amygdala_L, cols) /\ InSeq(Amygdala_R, cols) /\ InSeq(Asymmetry, cols)

\* C1: whenever validate_roi_csv returns successfully, the returned table and
\* the file on disk (as written, and as pandas loads it again) both contain
\* Amygdala_L, Amygdala_R and Asymmetry.
C1_ValidatedHasColumns ==
    vstat = "ok" =>
        /\ HemisphereAndAsymmetry(df.cols)
        /\ roiFile.exists
        /\ HemisphereAndAsymmetry(roiFile.hdr)
        /\ HemisphereAndAsymmetry(read_csv(roiFile).cols)

\* a successful call that had to add the Asymmetry column
C1_Witness ==
    /\ vstat = "ok" /\ vwrites = 1
    /\ prevFile.exists /\ ~InSeq(Asymmetry, prevFile.hdr)

\* C2: once validate_roi_csv has succeeded on the file, every later call
\* writes nothing and leaves the file content as it was.
C2_RepairIdempotent ==
    okBefore => (vwrites = 0 /\ roiFile = prevFile)

\* the first call repaired the file, a later call succeeded on the repaired file
C2_Witness ==
    okBefore /\ totalWrites = 1 /\ vstat = "ok" /\ nvalid >= 2

\* C3: an absent file ends the call with MissingArtifact and, for a file that
\* loads, an absent hemisphere column ends it with SchemaViolation (also when
\* Asymmetry is absent too); neither writes the file nor attempts a repair.
C3_FatalLeavesStorage ==
    nvalid > 0 =>
        /\ ~prevFile.exists => vstat = "MissingArtifact"
        /\ ( /\ prevFile.exists /\ Len(prevFile.hdr) > 0
             /\ (~InSeq(Amygdala_L, prevFile.hdr) \/ ~InSeq(Amygdala_R, prevFile.hdr)) )
              => vstat = "SchemaViolation"
        /\ vstat \in {"MissingArtifact", "SchemaViolation"}
              => (vwrites = 0 /\ roiFile = prevFile /\ df = NoTable)

\* a SchemaViolation on a file that lacks Amygdala_R and Asymmetry
C3_Witness ==
    /\ vstat = "SchemaViolation" /\ prevFile.exists
    /\ InSeq(Amygdala_L, prevFile.hdr)
    /\ ~InSeq(Amygdala_R, prevFile.hdr) /\ ~InSeq(Asymmetry, prevFile.hdr)
    /\ Len(prevFile.rows) > 0

IsFinite(v) == v.k \in {"int", "num"}

\* v is (r - l) / (r + l) when both are finite with a nonzero sum, and a
\* non-finite value otherwise
IsAsymmetryOf(v, l, r) ==
    IF IsFinite(l) /\ IsFinite(r) /\ r.n * l.d + l.n * r.d # 0
    THEN /\ v.k = "num"
         /\ v.n * (r.n * l.d + l.n * r.d) = (r.n * l.d - l.n * r.d) * v.d
    ELSE v.k \in {"nan", "inf"}

subject_lc == <<"s","u","b","j","e","c","t">>
stai_t_lc  == <<"s","t","a","i","_","t">>

SubjectCandidates ==
    << <<"s","u","b">>,
       <<"p","a","r","t","i","c","i","p","a","n","t">>,
       <<"i","d">>,
       <<"p","a","r","t","i","c","i","p","a","n","t","_","i","d">> >>

ScoreCandidates ==
    << <<"t","r","a","i","t","_","a","n","x","i","e","t","y">>,
       <<"a","n","x","i","e","t","y">>,
       <<"s","c","o","r","e">> >>

\* [c.strip().lower() for c in anx_df.columns]
CleanNames(cols) == [i \in 1..Len(cols) |-> ToLower(Strip(cols[i]))]

\* DataFrame.rename(columns={old: new}): every column labelled old is relabelled
Rename(cols, old, new) == [i \in 1..Len(cols) |-> IF cols[i] = old THEN new ELSE cols[i]]

\* for candidate in cands: if candidate in columns: rename; break
RECURSIVE RenameFirst(_, _, _)
RenameFirst(cols, cands, new) ==
    IF Len(cands) = 0 THEN cols
    ELSE IF InSeq(Head(cands), cols) THEN Rename(cols, Head(cands), new)
    ELSE RenameFirst(cols, Tail(cands), new)

\* lines 52-57 and 59-63
Resolve(cols, canonical, cands) ==
    IF InSeq(canonical, cols) THEN cols ELSE RenameFirst(cols, cands, canonical)

\* lines 51-66
NormalizeColumns(cols) ==
    LET c1 == CleanNames(cols)
        c2 == Resolve(c1, subject_lc, SubjectCandidates)
        c3 == Resolve(c2, stai_t_lc, ScoreCandidates)
    IN  Rename(Rename(c3, subject_lc, Subject), stai_t_lc, STAI_T)

MaxAnxCols == 3

\* header names of the anxiety file as pd.read_csv returns them (all distinct)
RawNames ==
    { <<" ","P","a","r","t","i","c","i","p","a","n","t","_","I","D"," ">>,
      <<"p","a","r","t","i","c","i","p","a","n","t">>,
      <<"S","u","b">>,
      <<"s","u","b"," ">>,
      <<"I","D">>,
      <<"S","u","b","j","e","c","t">>,
      <<"A","n","x","i","e","t","y">>,
      <<"s","c","o","r","e">>,
      <<"a","g","e">> }

InitNorm ==
    /\ \E n \in 0..MaxAnxCols :
         \E h \in [1..n -> RawNames] :
            /\ \A i, j \in 1..n : i # j => h[i] # h[j]
            /\ anxCols = h
    /\ normCols = anxCols
    /\ normStat = "loaded"
    /\ ValIdle /\ PipeIdle

\* the normalization block run on the loaded table
Normalize ==
    /\ normStat = "loaded"
    /\ normCols' = NormalizeColumns(anxCols)
    /\ normStat' = "normalized"
    /\ UNCHANGED <<anxCols, valVars, pipeVars>>

NextNorm == Normalize

SpecNorm == InitNorm /\ [][NextNorm]_vars


(***************************************************************************)
(* Properties of the column normalization, checked under SpecNorm          *)
(***************************************************************************)
\* the loaded names as they are compared: stripped, then lower-cased
Compared(cols) == [i \in 1..Len(cols) |-> ToLower(Strip(cols[i]))]

IsSubjectCandidate(name) == InSeq(name, SubjectCandidates)

\* the position in the priority list of the first candidate that is present
FirstPresent(cols) ==
    CHOOSE k \in 1..Len(SubjectCandidates) :
        /\ InSeq(SubjectCandidates[k], cols)
        /\ \A m \in 1..(k - 1) : ~InSeq(SubjectCandidates[m], cols)

SubjectPositions(cols) == {i \in 1..Len(cols) : cols[i] = Subject}

\* C9: with no column named subject, the first candidate of (sub, participant,
\* id, participant_id) that is present is renamed to the canonical subject
\* column, exactly one column is renamed, lower-priority candidates stay as
\* they are, and with no candidate present there is no subject column.
C9_SubjectResolution ==
    normStat = "normalized" =>
        LET c == Compared(anxCols)
        IN  /\ Len(normCols) = Len(anxCols)
            /\ ~InSeq(subject_lc, c) =>
                 IF \E i \in 1..Len(c) : IsSubjectCandidate(c[i])
                 THEN LET first == SubjectCandidates[FirstPresent(c)]
                      IN  /\ Cardinality(SubjectPositions(normCols)) = 1
                          /\ \A i \in SubjectPositions(normCols) : c[i] = first
                          /\ \A i \in 1..Len(c) :
                                (IsSubjectCandidate(c[i]) /\ c[i] # first)
                                    => normCols[i] = c[i]
                 ELSE SubjectPositions(normCols) = {}

\* the same, for tables whose compared names are all different
C9_DistinctNames ==
    (\A i, j \in 1..Len(anxCols) :
        i # j => Compared(anxCols)[i] # Compared(anxCols)[j])
    => C9_SubjectResolution

\* the column loaded as ' Participant_ID ' is the canonical subject column
C9_ParticipantIdCase ==
    /\ normStat = "normalized"
    /\ \E i \in 1..Len(anxCols) :
          /\ anxCols[i] = <<" ","P","a","r","t","i","c","i","p","a","n","t","_","I","D"," ">>
          /\ normCols[i] = Subject


(***************************************************************************)
(* Mask construction: 03_generate_figures.py (Figure 4 block) and          *)
(* run_and_qa.fix_overlay_mask_and_render                                  *)
(***************************************************************************)
AmygdalaText == <<"A","m","y","g","d","a","l","a">>
ExtendedText == <<"E","x","t","e","n","d","e","d">>

LeftAmygdala  == <<"L","e","f","t"," ","A","m","y","g","d","a","l","a">>
RightAmygdala == <<"R","i","g","h","t"," ","A","m","y","g","d","a","l","a">>
LeftAmygdalaExtended ==
    <<"L","e","f","t"," ","A","m","y","g","d","a","l","a"," ","E","x","t","e","n","d","e","d">>
Background    == <<"B","a","c","k","g","r","o","u","n","d">>
LowerAmygdala == <<"l","e","f","t"," ","a","m","y","g","d","a","l","a">>
BlankLabel    == <<" ">>

\* 03_generate_figures.py line 111: the test applied to a label
Fig4Matches(name) == Contains(name, AmygdalaText)

\* run_and_qa.py line 135: the test applied to a label
FixMatches(name) == Contains(name, AmygdalaText) /\ ~Contains(name, ExtendedText)

\* run_and_qa.py line 128: [lbl.strip() for lbl in ho.labels if str(lbl).strip()]
FixLabels(raw) ==
    LET kept == SelectSeq(raw, LAMBDA l : Strip(l) # <<>>)
    IN  [i \in 1..Len(kept) |-> Strip(kept[i])]

\* [i for i, name in enumerate(labels) if ...]: positions counted from 0
Fig4Indices(labels) == {i - 1 : i \in {j \in 1..Len(labels) : Fig4Matches(labels[j])}}

FixIndices(labels) == {i - 1 : i \in {j \in 1..Len(labels) : FixMatches(labels[j])}}

\* np.isin(atlas_data, amyg_indices).astype(np.int8)
IsIn(vol, idx) == [v \in 1..Len(vol) |-> IF vol[v] \in idx THEN 1 ELSE 0]

\* 03_generate_figures.py line 103; without the test the block would build
\* on every run
Fig4BuildsAlways(m) == TRUE

Fig4Builds(m) == ~m.exists

(***************************************************************************)
(* Specification Spec: run_and_qa.main, run repeatedly                     *)
(***************************************************************************)
MaxLabels == 2
MaxPipeRuns == 2

LabelNames ==
    {LeftAmygdala, LeftAmygdalaExtended, Background, LowerAmygdala, BlankLabel}

\* the vocabulary of the documented example
ExampleVocabulary == <<LeftAmygdala, RightAmygdala, LeftAmygdalaExtended, Background>>

\* label volumes: one voxel per label index, in ascending or descending order
Volumes(labels) ==
    { [v \in 1..Len(labels) |-> v - 1],
      [v \in 1..Len(labels) |-> Len(labels) - v] }

IsAtlas(a) ==
    \E labels \in {ExampleVocabulary} \cup UNION {[1..n -> LabelNames] : n \in 1..MaxLabels} :
        \E vol \in Volumes(labels) : a = [labels |-> labels, vol |-> vol]

\* roi_values.csv as 02_compute_asymmetry_vs_anxiety.py writes it: the anxiety
\* columns, then Mean_Activation, Amygdala_L, Amygdala_R, Asymmetry
Mean_Activation == <<"M","e","a","n","_","A","c","t","i","v","a","t","i","o","n">>

MergedFile ==
    [exists |-> TRUE,
     hdr  |-> <<Subject, STAI_T, Mean_Activation, Amygdala_L, Amygdala_R, Asymmetry>>,
     rows |-> << << <<"s","6">>, <<"4","0">>, <<"2",".","0">>,
                    <<"1",".","0">>, <<"3",".","0">>, <<"0",".","5">> >> >>]

Init ==
    /\ pc = "idle" /\ runs = 0
    /\ IsAtlas(atlas)
    /\ haveNilearn \in BOOLEAN
    /\ maskFile = NoMask /\ maskBy = "none" /\ builds = 0
    /\ sel03 = NoSel /\ selFix = NoSel
    /\ noLabels03 = FALSE /\ maskFailed = FALSE /\ stageFailed = FALSE
    /\ donePrinted = FALSE
    /\ ValIdle /\ NormIdle

\* python3 run_and_qa.py
Start ==
    /\ pc \in {"idle", "done", "aborted"}
    /\ runs < MaxPipeRuns
    /\ pc' = "s01"
    /\ runs' = runs + 1
    /\ noLabels03' = FALSE /\ maskFailed' = FALSE /\ stageFailed' = FALSE
    /\ donePrinted' = FALSE
    /\ UNCHANGED <<atlas, haveNilearn, maskFile, maskBy, builds, sel03, selFix,
                   valVars, normVars>>

\* run(cmd) when the script exits non-zero: sys.exit
Abort ==
    /\ pc' = "aborted"
    /\ stageFailed' = TRUE

\* run("python3 01_extract_amygdala_activation.py")
Run01 ==
    /\ pc = "s01"
    /\ \E rc \in {0, 1} :
          IF rc # 0 THEN Abort
          ELSE pc' = "s02" /\ UNCHANGED stageFailed
    /\ UNCHANGED <<runs, atlas, haveNilearn, maskFile, maskBy, builds, sel03, selFix,
                   noLabels03, maskFailed, donePrinted, valVars, normVars>>

\* run("python3 02_compute_asymmetry_vs_anxiety.py")
Run02 ==
    /\ pc = "s02"
    /\ \E rc \in {0, 1} :
          IF rc # 0 THEN Abort /\ UNCHANGED roiFile
          ELSE pc' = "s03" /\ roiFile' = MergedFile /\ UNCHANGED stageFailed
    /\ UNCHANGED <<runs, atlas, haveNilearn, maskFile, maskBy, builds, sel03, selFix,
                   noLabels03, maskFailed, donePrinted, normVars,
                   df, vstat, vwrites, vwarned, prevFile, okBefore, nvalid, totalWrites>>

\* the Figure 4 block of 03_generate_figures.py (lines 100-133)
Fig4Block ==
    IF Fig4Builds(maskFile)
    THEN LET idx == Fig4Indices(atlas.labels)
         IN  /\ sel03' = [built |-> TRUE, labels |-> atlas.labels, idx |-> idx]
             /\ IF idx = {}
                THEN \* raise ValueError, caught by the except of line 132
                     /\ noLabels03' = TRUE
                     /\ UNCHANGED <<maskFile, maskBy, builds>>
                ELSE /\ maskFile' = [exists |-> TRUE, data |-> IsIn(atlas.vol, idx)]
                     /\ maskBy' = "fig4"
                     /\ builds' = builds + 1
                     /\ UNCHANGED noLabels03
    ELSE UNCHANGED <<maskFile, maskBy, builds, sel03, noLabels03>>

\* run("python3 03_generate_figures.py")
Run03 ==
    /\ pc = "s03"
    /\ \E rc \in {0, 1} :
          IF rc # 0
          THEN Abort /\ UNCHANGED <<maskFile, maskBy, builds, sel03, noLabels03>>
          ELSE pc' = "validate" /\ Fig4Block /\ UNCHANGED stageFailed
    /\ UNCHANGED <<runs, atlas, haveNilearn, selFix, maskFailed, donePrinted,
                   valVars, normVars>>

\* df = validate_roi_csv(ROI_CSV)
ValidateStage ==
    /\ pc = "validate"
    /\ CallValidate
    /\ IF validate_roi_csv(roiFile).stat = "ok"
       THEN pc' = "mask" /\ UNCHANGED stageFailed
       ELSE Abort
    /\ UNCHANGED <<runs, atlas, haveNilearn, maskFile, maskBy, builds, sel03, selFix,
                   noLabels03, maskFailed, donePrinted, normVars>>

\* fix_overlay_mask_and_render()
FixOverlay ==
    /\ pc = "mask"
    /\ pc' = "report"
    /\ IF ~haveNilearn
       THEN UNCHANGED <<maskFile, maskBy, builds, selFix, maskFailed>>
       ELSE LET labels == FixLabels(atlas.labels)
                idx    == FixIndices(labels)
            IN  /\ selFix' = [built |-> TRUE, labels |-> labels, idx |-> idx]
                /\ IF idx = {}
                   THEN \* prints "No amygdala labels found in atlas." and returns
                        /\ maskFailed' = TRUE
                        /\ UNCHANGED <<maskFile, maskBy, builds>>
                   ELSE /\ maskFile' = [exists |-> TRUE, data |-> IsIn(atlas.vol, idx)]
                        /\ maskBy' = "fix"
                        /\ builds' = builds + 1
                        /\ UNCHANGED maskFailed
    /\ UNCHANGED <<runs, atlas, haveNilearn, sel03, noLabels03, stageFailed,
                   donePrinted, valVars, normVars>>

\* the closing prints of main: "DONE - All outputs successfully generated"
Report ==
    /\ pc = "report"
    /\ pc' = "done"
    /\ donePrinted' = TRUE
    /\ UNCHANGED <<runs, atlas, haveNilearn, maskFile, maskBy, builds, sel03, selFix,
                   noLabels03, maskFailed, stageFailed, valVars, normVars>>

Next == Start \/ Run01 \/ Run02 \/ Run03 \/ ValidateStage \/ FixOverlay \/ Report

Spec == Init /\ [][Next]_vars


(***************************************************************************)
(* Properties of the mask builds and of main, checked under Spec           *)
(***************************************************************************)
\* the two-predicate filter: contains "Amygdala" and does not contain "Extended"
PassesFilter(name) == Contains(name, AmygdalaText) /\ ~Contains(name, ExtendedText)

\* the label indices (from 0) of the atlas vocabulary that pass the filter
MatchingIndices == {i \in 0..(Len(atlas.labels) - 1) : PassesFilter(atlas.labels[i + 1])}

\* C4: a build whose filter yields no index fails with NoMatchingLabels, and
\* the run does not go on to report success.
C4_NoLabelsIsFatal ==
    (noLabels03 \/ maskFailed) => ~donePrinted

\* C5: every mask build selects index i iff vocabulary entry i contains
\* "Amygdala" and does not contain "Extended"; for the example vocabulary the
\* selected set is {0, 1}.
C5_SelectsByFilter ==
    \A sel \in {sel03, selFix} :
        sel.built =>
            /\ sel.idx = MatchingIndices
            /\ atlas.labels = ExampleVocabulary => sel.idx = {0, 1}

\* C6: the mask written by fix_overlay_mask_and_render has the shape of the
\* label volume, and a voxel is 1 iff the vocabulary entry at its label index
\* passes the filter.
C6_MaskVoxels ==
    (maskFile.exists /\ maskBy = "fix") =>
        /\ Len(maskFile.data) = Len(atlas.vol)
        /\ \A v \in 1..Len(atlas.vol) :
              maskFile.data[v] = (IF PassesFilter(atlas.labels[atlas.vol[v] + 1]) THEN 1 ELSE 0)

\* C7 as stated: across any sequence of runs the mask artifact is built at
\* most once.
C7_BuiltAtMostOnce == builds <= 1

\* C7 amended: the Figure 4 block builds only when no artifact exists and
\* never touches an existing one; fix_overlay_mask_and_render writes the
\* artifact whenever it runs with nilearn available and a non-empty
\* selection, whether or not an artifact exists; nothing else writes it.
C7_BuildPolicy ==
    [][ /\ (pc = "s03" /\ maskFile.exists)
            => (maskFile' = maskFile /\ builds' = builds)
        /\ (pc = "s03" /\ ~maskFile.exists /\ pc' = "validate" /\ MatchingIndices # {})
            => (maskFile'.exists /\ builds' = builds + 1 /\ maskBy' = "fig4")
        /\ (pc = "mask" /\ haveNilearn /\ selFix'.idx # {})
            => (maskFile'.exists /\ builds' = builds + 1 /\ maskBy' = "fix")
        /\ (builds' # builds \/ maskFile' # maskFile) => pc \in {"s03", "mask"}
      ]_vars

\* a second run whose Figure 4 block found the artifact of the first run and
\* left it, after the first run had written it twice
C7_Witness ==
    /\ runs = 2 /\ pc = "validate"
    /\ maskFile.exists /\ maskBy = "fix" /\ builds = 2

\* C8: main runs extract, compute-asymmetry, generate-figures, validate,
\* build-mask in that order and, once a stage has failed, starts no later
\* stage and never prints the final success message.
C8_AbortOnFirstFailure ==
    (stageFailed \/ maskFailed) => (pc = "aborted" /\ ~donePrinted)


====
